---------------------------- MODULE Spec2Model ----------------------------
(***************************************************************************)
(* Model of two subsystems of rust-analyzer:                               *)
(*   - the module tree builder (crates/ra_analysis/.../module/imp.rs):     *)
(*     module_tree, create_module_tree, build_subtree, resolve_submodule;  *)
(*   - the crate graph projector (crates/ra_project_model/src/lib.rs):     *)
(*     ProjectWorkspace::to_crate_graph.                                   *)
(* Option<T> is modelled as a sequence: <<>> is None, <<x>> is Some(x).    *)
(* ModuleId and LinkId are the 0-based arena indices of the Rust code.     *)
(***************************************************************************)
EXTENDS Integers, Sequences, FiniteSets, TLC

VARIABLES
    files,      \* SourceRoot.files: the set of FileIds of the source root
    submods,    \* per file, the names db.submodules(file) returns, in source order
    memo,       \* the files whose submodules result the engine has stored
    order,      \* the order in which source_root.files.iter() yields the files
    canceled,   \* the engine's cancellation flag read by db::check_canceled
    observed,   \* history: some cancellation check has reported cancelled
    pc,         \* position of the module_tree query
    idx,        \* position of the outer loop of create_module_tree in order
    tree,       \* the ModuleTree under construction (mods and links arenas)
    visited,    \* create_module_tree's visited set
    roots,      \* create_module_tree's map FileId -> ModuleId of orphan roots
    stack,      \* the active build_subtree invocations, innermost last
    result,     \* what module_tree returned to its caller
    run,        \* 1: first evaluation of the query, 2: re-evaluation
    prev,       \* the tree the first evaluation returned
    spc,        \* position of the module_scope query
    scope,      \* what module_scope returned to its caller
    asked,      \* history: cancellation had been requested when module_scope was invoked
    ws,             \* the ProjectWorkspace to_crate_graph is called on
    loadable,       \* the root paths for which `load` returns a FileId
    at,             \* position of to_crate_graph: the loop and its indices
    crate_graph,    \* the CrateGraph being built
    crates,         \* Json: map json_project::CrateId -> CrateId
    sysroot_crates, \* Cargo: map sysroot crate -> CrateId
    pkg_to_lib_crate, \* Cargo: map package -> CrateId of its library target
    pkg_crates,     \* Cargo: map package -> CrateIds of its loaded targets
    lib_tgt,        \* Cargo: the library CrateId of the package being visited
    log,            \* the log::error! messages written so far
    calls,          \* history: the add_crate_root and add_dep calls made so far
    manifests,  \* the paths of the manifest files that exist on disk
    dpath,      \* the path ProjectWorkspace::discover is called with
    loads_ok,   \* reading the manifest that was found succeeds
    dpc,        \* position of discover
    curr,       \* `curr` of the upward walk in progress
    manifest,   \* the manifest path the walk returned
    probed,     \* history: the candidate paths tested with exists(), in order
    dresult,    \* what discover returned to its caller
    is_member,  \* ProjectRoot.is_member
    dir_path,   \* the relative path include_dir is called with
    rpc,        \* position of include_dir
    included    \* what include_dir returned

treeVars == <<memo, files, submods, order, canceled, observed, pc, idx, tree, visited,
              roots, stack, result, run, prev>>

graphVars == <<ws, loadable, at, crate_graph, crates, sysroot_crates,
               pkg_to_lib_crate, pkg_crates, lib_tgt, log, calls>>

scopeVars == <<spc, scope, asked>>

discVars == <<manifests, dpath, loads_ok, dpc, curr, manifest, probed, dresult>>

rootVars == <<is_member, dir_path, rpc, included>>

\* the state the module tree builder never touches
exceptTree == <<scopeVars, graphVars, discVars, rootVars>>

\* the state to_crate_graph never touches
exceptGraph == <<treeVars, scopeVars, discVars, rootVars>>

vars == <<treeVars, scopeVars, graphVars, discVars, rootVars>>

-----------------------------------------------------------------------------
(* Bounds of the model *)

\* at most this many `mod name;` declarations in a source root
MaxDecls == 2

\* build_subtree recursion deeper than this overflows the thread's stack
MaxDepth == 5

\* at most this many crates in a rust-project.json
MaxCrates == 3

\* at most this many dependencies declared in a rust-project.json
MaxJsonDeps == 3

\* at most this many packages in a Cargo workspace
MaxPkgs == 2

\* at most this many targets in a package
MaxTargets == 2

\* at most this many crate roots that `load` returns None for
MaxUnloaded == 1

-----------------------------------------------------------------------------
(* Option *)

None == <<>>

Some(x) == <<x>>

IsSome(o) == Len(o) = 1

Unwrap(o) == o[1]

-----------------------------------------------------------------------------
(* The files a source root may hold, and the file resolver *)

\* FileId -> path of the file, as its directory components and its stem
FilePath == <<
    [dir |-> <<>>,      stem |-> "lib"],    \* lib.rs
    [dir |-> <<>>,      stem |-> "main"],   \* main.rs
    [dir |-> <<>>,      stem |-> "foo"],    \* foo.rs
    [dir |-> <<"foo">>, stem |-> "mod"] >>  \* foo/mod.rs

AllFiles == DOMAIN FilePath

\* the submodule names a file may declare
Names == {"foo", "lib", "main"}

\* the path of a file as a sequence of components, the last one the file name
Components(f) == FilePath[f].dir \o <<FilePath[f].stem \o ".rs">>

\* RelativePath::normalize: a ".." component removes the component before it
RECURSIVE Normalize(_, _)
Normalize(done, rest) ==
    IF rest = <<>> THEN done
    ELSE IF Head(rest) = ".." /\ done # <<>>
         THEN Normalize(SubSeq(done, 1, Len(done) - 1), Tail(rest))
         ELSE Normalize(Append(done, Head(rest)), Tail(rest))

\* FileResolver::file_stem
FileStem(f) == FilePath[f].stem

\* FileResolver::resolve: the relative path is joined to the anchor's path and
\* normalized; the result must be a file of the source root
Resolve(fs, anchor, rel) ==
    LET target == Normalize(<<>>, Components(anchor) \o rel)
        hits == {f \in fs : Components(f) = target}
    IN  IF hits = {} THEN None ELSE Some(CHOOSE f \in hits : TRUE)

-----------------------------------------------------------------------------
(* resolve_submodule *)

\* faulty variant of IsDirOwner: `!=` in place of the first `==`
IsDirOwnerNotMod(mod_name) == mod_name # "mod" \/ mod_name = "lib" \/ mod_name = "main"

\* let is_dir_owner = mod_name == "mod" || mod_name == "lib" || mod_name == "main"
IsDirOwner(mod_name) == mod_name = "mod" \/ mod_name = "lib" \/ mod_name = "main"

\* format!("../{}.rs", name)
FileMod(name) == <<"..", name \o ".rs">>

\* format!("../{}/mod.rs", name)
DirMod(name) == <<"..", name, "mod.rs">>

\* faulty variant of FilterMapResolve: the directory form is tried first
FilterMapResolveDirFirst(fs, file_id, paths) ==
    Resolve(fs, file_id, paths[2]) \o Resolve(fs, file_id, paths[1])

\* [&file_mod, &dir_mod].iter().filter_map(|path| resolve(file_id, path)).collect()
FilterMapResolve(fs, file_id, paths) ==
    LET r1 == Resolve(fs, file_id, paths[1])
        r2 == Resolve(fs, file_id, paths[2])
    IN  r1 \o r2

ResolveSubmodule(fs, file_id, name) ==
    LET mod_name == FileStem(file_id)
        file_mod == FileMod(name)
        dir_mod  == DirMod(name)
    IN  IF IsDirOwner(mod_name)
        THEN LET points_to == FilterMapResolve(fs, file_id, <<file_mod, dir_mod>>)
             IN  [points_to |-> points_to,
                  problem |-> IF points_to = <<>>
                              THEN Some([kind |-> "UnresolvedModule",
                                         candidate |-> file_mod])
                              ELSE None]
        ELSE [points_to |-> <<>>,
              problem |-> Some([kind |-> "NotDirOwner",
                                move_to |-> DirMod(mod_name),
                                candidate |-> file_mod])]

-----------------------------------------------------------------------------
(* ModuleTree arenas *)

EmptyTree == [mods |-> <<>>, links |-> <<>>]

Module(t, id) == t.mods[id + 1]

Link(t, id) == t.links[id + 1]

ModuleIds(t) == {i - 1 : i \in DOMAIN t.mods}

LinkIds(t) == {i - 1 : i \in DOMAIN t.links}

\* ModuleTree::push_mod: the new module's id is its index in the arena
PushMod(t, data) == [t EXCEPT !.mods = Append(@, data)]

\* ModuleTree::push_link: the new link is recorded among its owner's children
PushLink(t, data) ==
    [mods  |-> [t.mods EXCEPT ![data.owner + 1].children = Append(@, Len(t.links))],
     links |-> Append(t.links, data)]

\* faulty variant of SetParent: `id`, the declaring module, is written in
\* place of `module_id`, the adopted one
SetParentOfOwner(t, module_id, link) ==
    [t EXCEPT !.mods[t.links[link + 1].owner + 1].parent = Some(link)]

\* tree.module_mut(module_id).parent = Some(link)
SetParent(t, module_id, link) ==
    [t EXCEPT !.mods[module_id + 1].parent = Some(link)]

\* faulty variant of SetLink: the problem is not written back to the link
SetLinkPointsToOnly(t, link, points_to, problem) ==
    [t EXCEPT !.links[link + 1].points_to = points_to]

\* tree.link_mut(link).points_to = points_to; tree.link_mut(link).problem = problem
SetLink(t, link, points_to, problem) ==
    [t EXCEPT !.links[link + 1].points_to = points_to,
              !.links[link + 1].problem = problem]

\* faulty variant of RootsRemove: the orphan root stays in the map (roots.get
\* in place of roots.remove), so a later declaration adopts it again
RootsKeep(r, file_id) == r

\* roots.remove(&file_id): the map without the key
RootsRemove(r, file_id) == [f \in DOMAIN r \ {file_id} |-> r[f]]

\* faulty variant of RootsInsert: the module is not recorded
RootsInsertNothing(r, file_id, module_id) == r

\* roots.insert(file_id, module_id)
RootsInsert(r, file_id, module_id) ==
    [f \in DOMAIN r \cup {file_id} |-> IF f = file_id THEN module_id ELSE r[f]]

EmptyMap == [f \in {} |-> 0]


-----------------------------------------------------------------------------
(* Inputs of the module_tree query *)

\* sequences over S of length at most n
SeqsUpTo(S, n) == UNION {[1..k -> S] : k \in 0..n}

RECURSIVE SumLen(_, _)
SumLen(f, S) ==
    IF S = {} THEN 0
    ELSE LET x == CHOOSE y \in S : TRUE
         IN  Len(f[x]) + SumLen(f, S \ {x})

\* the iteration orders of a file set
Perms(S) ==
    {s \in [1..Cardinality(S) -> S] : \A i, j \in DOMAIN s : s[i] = s[j] => i = j}

\* the files in ascending FileId order
Ascending(S) == CHOOSE s \in Perms(S) : \A i, j \in DOMAIN s : i < j => s[i] < s[j]

\* the Cancelable results of module_tree
NotReturned == [kind |-> "NotReturned", tree |-> None]

Cancelled == [kind |-> "Cancelled", tree |-> None]

Ok(t) == [kind |-> "Ok", tree |-> Some(t)]

-----------------------------------------------------------------------------
(* build_subtree, one invocation per stack frame *)

\* faulty variant of VisitedInsert: the file is not marked as visited
VisitedForget(v, file_id) == v

\* visited.insert(file_id)
VisitedInsert(v, file_id) == v \cup {file_id}

\* the ModuleData build_subtree pushes for file_id
NewModule(parent, file_id) ==
    [source |-> file_id, parent |-> parent, children |-> <<>>]

NewFrame(file_id, id) ==
    [file |-> file_id, id |-> id, names |-> <<>>, link |-> None,
     cands |-> <<>>, pts |-> <<>>, problem |-> None]

Top == stack[Len(stack)]

SetTop(fr) == [stack EXCEPT ![Len(stack)] = fr]

\* db::check_canceled(db)
CheckCanceled == canceled

\* faulty variant of Unwind: the loop is left on cancellation and the tree
\* built so far is returned
UnwindPartial ==
    /\ pc' = "done"
    /\ result' = Ok(tree)
    /\ observed' = TRUE
    /\ stack' = <<>>
    /\ UNCHANGED <<memo, files, submods, order, canceled, idx, tree, visited, roots,
                   run, prev>>
    /\ UNCHANGED exceptTree

\* the state a query is left in when a `?` propagates Err(Canceled) to its caller
Unwind ==
    /\ pc' = "done"
    /\ result' = Cancelled
    /\ observed' = TRUE
    /\ stack' = <<>>
    /\ UNCHANGED <<memo, files, submods, order, canceled, idx, tree, visited, roots,
                   run, prev>>
    /\ UNCHANGED exceptTree

\* module_tree: db::check_canceled(db)? passes, create_module_tree starts
ModuleTreeStart ==
    /\ pc = "start"
    /\ ~CheckCanceled
    /\ pc' = "loop"
    /\ tree' = EmptyTree
    /\ roots' = EmptyMap
    /\ visited' = {}
    /\ idx' = 1
    /\ UNCHANGED <<memo, files, submods, order, canceled, observed, stack, result,
                   run, prev>>
    /\ UNCHANGED exceptTree

\* module_tree: db::check_canceled(db)? returns Err(Canceled)
ModuleTreeStartCancelled ==
    /\ pc = "start"
    /\ CheckCanceled
    /\ Unwind

\* create_module_tree: `if visited.contains(&file_id) { continue; }`
OuterSkip ==
    /\ pc = "loop"
    /\ idx <= Len(order)
    /\ order[idx] \in visited
    /\ idx' = idx + 1
    /\ UNCHANGED <<memo, files, submods, order, canceled, observed, pc, tree, visited,
                   roots, stack, result, run, prev>>
    /\ UNCHANGED exceptTree

\* create_module_tree: assert!(!roots.contains_key(&file_id)), then the call
\* build_subtree(.., None, file_id) up to its db.submodules(file_id) query
OuterCall ==
    /\ pc = "loop"
    /\ idx <= Len(order)
    /\ order[idx] \notin visited
    /\ LET file_id == order[idx]
       IN  IF file_id \in DOMAIN roots
           THEN /\ pc' = "panic"
                /\ UNCHANGED <<tree, visited, stack>>
           ELSE /\ pc' = "query"
                /\ visited' = VisitedInsert(visited, file_id)
                /\ tree' = PushMod(tree, NewModule(None, file_id))
                /\ stack' = Append(stack, NewFrame(file_id, Len(tree.mods)))
    /\ UNCHANGED <<memo, files, submods, order, canceled, observed, idx, roots, result,
                   run, prev>>
    /\ UNCHANGED exceptTree

\* build_subtree: db.submodules(file_id)? for a file whose submodules the
\* engine has stored: the stored names are handed back and submodules, with
\* its cancellation check, is not executed
SubmodulesMemoised ==
    /\ pc = "query"
    /\ Top.file \in memo
    /\ pc' = "body"
    /\ stack' = SetTop([Top EXCEPT !.names = submods[Top.file]])
    /\ UNCHANGED <<memo, files, submods, order, canceled, observed, idx, tree, visited,
                   roots, result, run, prev>>
    /\ UNCHANGED exceptTree

\* build_subtree: db.submodules(file_id)? executes submodules, whose
\* db::check_canceled(db)? passes; the declared names are returned and stored
SubmodulesOk ==
    /\ pc = "query"
    /\ Top.file \notin memo
    /\ ~CheckCanceled
    /\ pc' = "body"
    /\ memo' = memo \cup {Top.file}
    /\ stack' = SetTop([Top EXCEPT !.names = submods[Top.file]])
    /\ UNCHANGED <<files, submods, order, canceled, observed, idx, tree, visited,
                   roots, result, run, prev>>
    /\ UNCHANGED exceptTree

\* build_subtree: db.submodules(file_id)? executes submodules, whose
\* db::check_canceled(db)? returns Err(Canceled), which every enclosing
\* build_subtree, create_module_tree and module_tree propagate
SubmodulesCancelled ==
    /\ pc = "query"
    /\ Top.file \notin memo
    /\ CheckCanceled
    /\ Unwind

\* build_subtree: the head of `for name in ..`: resolve_submodule and push_link
NextDecl ==
    /\ pc = "body"
    /\ Top.link = None
    /\ Top.names # <<>>
    /\ LET name == Head(Top.names)
           res == ResolveSubmodule(files, Top.file, name)
       IN  /\ tree' = PushLink(tree, [name |-> name, owner |-> Top.id,
                                      points_to |-> <<>>, problem |-> None])
           /\ stack' = SetTop([Top EXCEPT !.names = Tail(@),
                                          !.link = Some(Len(tree.links)),
                                          !.cands = res.points_to,
                                          !.pts = <<>>,
                                          !.problem = res.problem])
    /\ UNCHANGED <<memo, files, submods, order, canceled, observed, pc, idx, visited,
                   roots, result, run, prev>>
    /\ UNCHANGED exceptTree

\* build_subtree: the closure of points_to.map when roots.remove(&file_id) is
\* Some(module_id): the orphan root is re-parented under the link
Adopt ==
    /\ pc = "body"
    /\ IsSome(Top.link)
    /\ Top.cands # <<>>
    /\ Head(Top.cands) \in DOMAIN roots
    /\ LET file_id == Head(Top.cands)
           module_id == roots[file_id]
       IN  /\ roots' = RootsRemove(roots, file_id)
           /\ tree' = SetParent(tree, module_id, Unwrap(Top.link))
           /\ stack' = SetTop([Top EXCEPT !.cands = Tail(@),
                                          !.pts = Append(@, module_id)])
    /\ UNCHANGED <<memo, files, submods, order, canceled, observed, pc, idx, visited,
                   result, run, prev>>
    /\ UNCHANGED exceptTree

\* build_subtree: the closure of points_to.map when roots.remove(&file_id) is
\* None: the recursive call build_subtree(.., Some(link), file_id), up to its
\* db.submodules(file_id) query; the thread's stack is finite
Recurse ==
    /\ pc = "body"
    /\ IsSome(Top.link)
    /\ Top.cands # <<>>
    /\ Head(Top.cands) \notin DOMAIN roots
    /\ LET file_id == Head(Top.cands)
       IN  IF Len(stack) >= MaxDepth
           THEN /\ pc' = "overflow"
                /\ UNCHANGED <<tree, visited, stack>>
           ELSE /\ pc' = "query"
                /\ visited' = VisitedInsert(visited, file_id)
                /\ tree' = PushMod(tree, NewModule(Top.link, file_id))
                /\ stack' = Append(SetTop([Top EXCEPT !.cands = Tail(@)]),
                                   NewFrame(file_id, Len(tree.mods)))
    /\ UNCHANGED <<memo, files, submods, order, canceled, observed, idx, roots, result,
                   run, prev>>
    /\ UNCHANGED exceptTree

\* build_subtree: after the candidates of a declaration, the link is filled in
FinishLink ==
    /\ pc = "body"
    /\ IsSome(Top.link)
    /\ Top.cands = <<>>
    /\ tree' = SetLink(tree, Unwrap(Top.link), Top.pts, Top.problem)
    /\ stack' = SetTop([Top EXCEPT !.link = None, !.pts = <<>>, !.problem = None])
    /\ UNCHANGED <<memo, files, submods, order, canceled, observed, pc, idx, visited,
                   roots, result, run, prev>>
    /\ UNCHANGED exceptTree

\* build_subtree: Ok(id) returned to an enclosing build_subtree, which collects
\* the id into the points_to of the link it is resolving
ReturnInner ==
    /\ pc = "body"
    /\ Top.link = None
    /\ Top.names = <<>>
    /\ Len(stack) > 1
    /\ LET id == Top.id
           rest == SubSeq(stack, 1, Len(stack) - 1)
       IN  stack' = [rest EXCEPT ![Len(rest)].pts = Append(@, id)]
    /\ UNCHANGED <<memo, files, submods, order, canceled, observed, pc, idx, tree,
                   visited, roots, result, run, prev>>
    /\ UNCHANGED exceptTree

\* build_subtree: Ok(id) returned to create_module_tree, which records the
\* module with roots.insert(file_id, module_id) and takes the next file
ReturnOuter ==
    /\ pc = "body"
    /\ Top.link = None
    /\ Top.names = <<>>
    /\ Len(stack) = 1
    /\ roots' = RootsInsert(roots, Top.file, Top.id)
    /\ stack' = <<>>
    /\ idx' = idx + 1
    /\ pc' = "loop"
    /\ UNCHANGED <<memo, files, submods, order, canceled, observed, tree, visited,
                   result, run, prev>>
    /\ UNCHANGED exceptTree

\* create_module_tree returns Ok(tree); module_tree returns Ok(Arc::new(res))
Finish ==
    /\ pc = "loop"
    /\ idx > Len(order)
    /\ pc' = "done"
    /\ result' = Ok(tree)
    /\ UNCHANGED <<memo, files, submods, order, canceled, observed, idx, tree, visited,
                   roots, stack, run, prev>>
    /\ UNCHANGED exceptTree

\* the engine evaluates module_tree again on the same source root, whose file
\* set now iterates in ascending FileId order
Rebuild ==
    /\ pc = "done"
    /\ run = 1
    /\ result.kind = "Ok"
    /\ run' = 2
    /\ prev' = result.tree
    /\ order' = Ascending(files)
    /\ pc' = "start"
    /\ result' = NotReturned
    /\ tree' = EmptyTree
    /\ roots' = EmptyMap
    /\ visited' = {}
    /\ idx' = 1
    /\ UNCHANGED <<memo, files, submods, canceled, observed, stack>>
    /\ UNCHANGED exceptTree

\* the engine sets the cancellation flag while the query is running
RequestCancel ==
    /\ ~canceled
    /\ pc \in {"start", "loop", "query", "body"}
    /\ canceled' = TRUE
    /\ UNCHANGED <<memo, files, submods, order, observed, pc, idx, tree, visited, roots,
                   stack, result, run, prev>>
    /\ UNCHANGED exceptTree

-----------------------------------------------------------------------------
(* The operations that are not running *)

\* module_scope has not been invoked
NoScope ==
    /\ spc = "idle"
    /\ scope = NotReturned
    /\ asked = FALSE

\* ProjectWorkspace::discover is not running
NoDiscovery ==
    /\ manifests = {}
    /\ dpath = <<>>
    /\ loads_ok = TRUE
    /\ dpc = "idle"
    /\ curr = None
    /\ manifest = None
    /\ probed = <<>>
    /\ dresult = [kind |-> "NotReturned"]

\* ProjectRoot::include_dir is not running
NoRoot ==
    /\ is_member = FALSE
    /\ dir_path = <<>>
    /\ rpc = "idle"
    /\ included = FALSE

-----------------------------------------------------------------------------
(* Specifications of the module tree builder *)

\* to_crate_graph is not running
NoProjection ==
    /\ ws = [kind |-> "None"]
    /\ loadable = {}
    /\ at = [phase |-> "done", i |-> 1, j |-> 1, k |-> 1]
    /\ crate_graph = [arena |-> <<>>]
    /\ crates = EmptyMap
    /\ sysroot_crates = EmptyMap
    /\ pkg_to_lib_crate = EmptyMap
    /\ pkg_crates = EmptyMap
    /\ lib_tgt = None
    /\ log = <<>>
    /\ calls = <<>>

InitBuilder ==
    /\ memo = {}
    /\ canceled = FALSE
    /\ observed = FALSE
    /\ pc = "start"
    /\ idx = 1
    /\ tree = EmptyTree
    /\ visited = {}
    /\ roots = EmptyMap
    /\ stack = <<>>
    /\ result = NotReturned
    /\ run = 1
    /\ prev = None

\* every source root over AllFiles, every iteration order of its files
Init ==
    /\ files \in SUBSET AllFiles \ {{}}
    /\ submods \in {f \in [files -> SeqsUpTo(Names, MaxDecls)] :
                        SumLen(f, files) <= MaxDecls}
    /\ order \in Perms(files)
    /\ InitBuilder
    /\ NoScope
    /\ NoProjection
    /\ NoDiscovery
    /\ NoRoot

Build ==
    \/ ModuleTreeStart
    \/ OuterSkip
    \/ OuterCall
    \/ SubmodulesMemoised
    \/ SubmodulesOk
    \/ NextDecl
    \/ Adopt
    \/ Recurse
    \/ FinishLink
    \/ ReturnInner
    \/ ReturnOuter
    \/ Finish

Next ==
    \/ Build
    \/ Rebuild

Spec == Init /\ [][Next]_vars

\* the query evaluated once while the engine may request cancellation
NextCancel ==
    \/ Build
    \/ RequestCancel
    \/ ModuleTreeStartCancelled
    \/ SubmodulesCancelled

SpecCancel == Init /\ [][NextCancel]_vars

-----------------------------------------------------------------------------
(* Reading a returned tree *)

Returned == pc = "done" /\ result.kind = "Ok"

\* the tree module_tree handed to its caller
RT == Unwrap(result.tree)

\* the modules of tree t whose source is File(f)
ModulesOf(t, f) == {m \in ModuleIds(t) : Module(t, m).source = f}

\* the places <<link, position>> of the points_to lists of t that hold module m
Occurrences(t, m) ==
    {p \in LinkIds(t) \X (1..2) :
        /\ p[2] <= Len(Link(t, p[1]).points_to)
        /\ Link(t, p[1]).points_to[p[2]] = m}

\* going module -> parent link -> owner of that link for at most fuel steps
\* reaches a module with parent = None
RECURSIVE ReachesRoot(_, _, _)
ReachesRoot(t, m, fuel) ==
    IF Module(t, m).parent = None THEN TRUE
    ELSE IF fuel = 0 THEN FALSE
    ELSE LET l == Unwrap(Module(t, m).parent)
         IN  /\ l \in LinkIds(t)
             /\ Link(t, l).owner \in ModuleIds(t)
             /\ ReachesRoot(t, Link(t, l).owner, fuel - 1)

\* the subtree of module m with the ModuleIds and LinkIds forgotten
RECURSIVE Unfold(_, _, _)
Unfold(t, m, fuel) ==
    LET ch == Module(t, m).children
    IN  [file  |-> Module(t, m).source,
         links |-> [i \in DOMAIN ch |->
                      LET l == Link(t, ch[i])
                      IN  [name    |-> l.name,
                           problem |-> l.problem,
                           kids    |-> IF fuel = 0 THEN <<>>
                                       ELSE [j \in DOMAIN l.points_to |->
                                               Unfold(t, l.points_to[j], fuel - 1)]]]]

\* the module that owns the parent link of module m
ParentOwner(t, m) == Link(t, Unwrap(Module(t, m).parent)).owner

\* module m was built as an orphan root and re-parented later: it is older
\* than the module that declares it
Adopted(t, m) == Module(t, m).parent # None /\ ParentOwner(t, m) > m

\* module m was built by the recursive call made for its parent link
Recursed(t, m) == Module(t, m).parent # None /\ ParentOwner(t, m) < m

\* parent fields and points_to lists describe the same edges
Consistent(t) ==
    \A m \in ModuleIds(t) :
        /\ Cardinality(Occurrences(t, m)) <= 1
        /\ \A l \in LinkIds(t) :
             (Module(t, m).parent = Some(l)) <=> (\E p \in Occurrences(t, m) : p[1] = l)

\* a tree up to renaming of ModuleIds and LinkIds: how many parentless modules
\* unfold to each shape, and the sizes of the two arenas
Canon(t) ==
    LET tops   == {m \in ModuleIds(t) : Module(t, m).parent = None}
        shapes == {Unfold(t, m, Len(t.mods)) : m \in tops}
    IN  [forest |-> [u \in shapes |->
                       Cardinality({m \in tops : Unfold(t, m, Len(t.mods)) = u})],
         nmods  |-> Len(t.mods),
         nlinks |-> Len(t.links)]

-----------------------------------------------------------------------------
(* Claims about the module tree *)

\* C1 (as stated): in a returned tree every file of the source root is the
\* File source of exactly one module.
C1_EachFileExactlyOneModule ==
    Returned => \A f \in files : Cardinality(ModulesOf(RT, f)) = 1

\* C2: in a returned tree a ModuleId occurs in at most one points_to list, at
\* one position, and that link is the module's parent field; a module with
\* parent = None occurs in none.
C2_AtMostOneParent ==
    Returned =>
        \A m \in ModuleIds(RT) :
            /\ Cardinality(Occurrences(RT, m)) <= 1
            /\ \A p \in Occurrences(RT, m) : Module(RT, m).parent = Some(p[1])
            /\ Module(RT, m).parent = None => Occurrences(RT, m) = {}
            /\ Module(RT, m).parent # None =>
                 \E p \in Occurrences(RT, m) : Module(RT, m).parent = Some(p[1])

\* C2 witness: a returned tree with a re-parented orphan root and a child
\* built by recursion
C2_Witness ==
    /\ Returned
    /\ \E m, n \in ModuleIds(RT) : Adopted(RT, m) /\ Recursed(RT, n)

\* C3: in a returned tree every link's owner is a module of the tree and the
\* parent chain of every module ends at a module with parent = None.
C3_ParentChainsEnd ==
    Returned =>
        /\ \A l \in LinkIds(RT) : Link(RT, l).owner \in ModuleIds(RT)
        /\ \A m \in ModuleIds(RT) : ReachesRoot(RT, m, Len(RT.mods))

\* C3 witness: a returned tree in which a re-parented orphan root has a
\* grandparent
C3_Witness ==
    /\ Returned
    /\ \E m \in ModuleIds(RT) :
         /\ Adopted(RT, m)
         /\ Module(RT, ParentOwner(RT, m)).parent # None

\* C4: in a returned tree every link has 0, 1 or 2 targets, and it has none
\* iff its problem is UnresolvedModule or NotDirOwner; otherwise problem is None.
C4_PointsToAndProblem ==
    Returned =>
        \A l \in LinkIds(RT) :
            LET lk == Link(RT, l)
            IN  /\ Len(lk.points_to) \in {0, 1, 2}
                /\ (Len(lk.points_to) = 0) <=>
                     (/\ IsSome(lk.problem)
                      /\ Unwrap(lk.problem).kind \in {"UnresolvedModule", "NotDirOwner"})
                /\ Len(lk.points_to) \in {1, 2} => lk.problem = None

\* C4 witness: a returned tree with an ambiguous link and a link with a problem
C4_Witness ==
    /\ Returned
    /\ \E l, k \in LinkIds(RT) :
         /\ Len(Link(RT, l).points_to) = 2
         /\ Link(RT, l).problem = None
         /\ Len(Link(RT, k).points_to) = 0
         /\ IsSome(Link(RT, k).problem)

\* C5: the tree returned for the ascending iteration order equals, up to a
\* renaming of ModuleIds and LinkIds, the tree returned for any other order of
\* the same source root (so the trees of any two orders are equal up to renaming).
C5_OrderIndependent ==
    (Returned /\ run = 2) =>
        /\ Canon(RT) = Canon(Unwrap(prev))
        /\ Consistent(RT)
        /\ Consistent(Unwrap(prev))

\* C5 witness: foo.rs was visited before lib.rs, built as an orphan root and
\* re-parented; the re-evaluation built it by recursion
C5_Witness ==
    /\ Returned
    /\ run = 2
    /\ \E m \in ModuleIds(Unwrap(prev)) : Adopted(Unwrap(prev), m)
    /\ \A m \in ModuleIds(RT) : ~Adopted(RT, m)
    /\ Len(RT.mods) >= 3

\* the file at path dir/stem.rs, if the source root holds it
FileAt(fs, dir, stem) == {g \in fs : FilePath[g].dir = dir /\ FilePath[g].stem = stem}

\* Some(g) for the only element g of a set, None for the empty set
OptionOf(S) == IF S = {} THEN None ELSE Some(CHOOSE g \in S : TRUE)

\* C6: for an anchor file whose stem is mod, lib or main, resolve_submodule
\* returns the existing ones of <dir>/<name>.rs and <dir>/<name>/mod.rs, the
\* file form first, and the problem UnresolvedModule { "../<name>.rs" } exactly
\* when neither exists.
C6_DirOwnerCandidates ==
    \A a \in files, n \in Names :
        FileStem(a) \in {"mod", "lib", "main"} =>
            LET r == ResolveSubmodule(files, a, n)
                f == FileAt(files, FilePath[a].dir, n)
                d == FileAt(files, Append(FilePath[a].dir, n), "mod")
            IN  /\ r.points_to = OptionOf(f) \o OptionOf(d)
                /\ r.problem = IF f = {} /\ d = {}
                               THEN Some([kind |-> "UnresolvedModule",
                                          candidate |-> <<"..", n \o ".rs">>])
                               ELSE None

\* C6 witness: build_subtree holds the two candidates resolve_submodule
\* returned for `mod foo;` in lib.rs, foo.rs before foo/mod.rs
C6_Witness ==
    /\ pc = "body"
    /\ stack # <<>>
    /\ FileStem(Top.file) = "lib"
    /\ IsSome(Top.link)
    /\ Top.cands = <<3, 4>>
    /\ Top.problem = None

\* the links of a returned tree that a file that is no directory owner declared
NotOwnerLinks(t) ==
    {l \in LinkIds(t) :
        FileStem(Module(t, Link(t, l).owner).source) \notin {"mod", "lib", "main"}}

\* the files ../<name>.rs and ../<name>/mod.rs the declaration of link l names
NamedFiles(t, l) ==
    LET a == Module(t, Link(t, l).owner).source
    IN  FileAt(files, FilePath[a].dir, Link(t, l).name)
          \cup FileAt(files, Append(FilePath[a].dir, Link(t, l).name), "mod")

\* the link of a declaration made by a file that is no directory owner
NotDirOwnerLink(t, l) ==
    LET a == Module(t, Link(t, l).owner).source
    IN  /\ Link(t, l).points_to = <<>>
        /\ Link(t, l).problem =
             Some([kind      |-> "NotDirOwner",
                   move_to   |-> <<"..", FileStem(a), "mod.rs">>,
                   candidate |-> <<"..", Link(t, l).name \o ".rs">>])

\* some declaration of a directory owner of the source root resolves to file g
DeclaredByOwner(g) ==
    \E a \in files : \E i \in DOMAIN submods[a] :
        /\ FileStem(a) \in {"mod", "lib", "main"}
        /\ g \in FileAt(files, FilePath[a].dir, submods[a][i])
                   \cup FileAt(files, Append(FilePath[a].dir, submods[a][i]), "mod")

\* C7 (as stated): a declaration in a file that is no directory owner yields
\* a link with no target and the problem NotDirOwner even if the file it names
\* (another file than the declaring one) exists, and that file gets a
\* parentless module of its own.
C7_NamedFileParentless ==
    Returned =>
        \A l \in NotOwnerLinks(RT) :
            /\ NotDirOwnerLink(RT, l)
            /\ \A g \in NamedFiles(RT, l) \ {Module(RT, Link(RT, l).owner).source} :
                 \E m \in ModulesOf(RT, g) : Module(RT, m).parent = None

\* C7 (amended): a declaration in a file that is no directory owner yields a
\* link with no target and the problem NotDirOwner even if the file it names
\* exists; that file has a module of its own, which is parentless unless a
\* declaration of a directory owner resolves to the file.
C7_NotDirOwner ==
    Returned =>
        \A l \in NotOwnerLinks(RT) :
            /\ NotDirOwnerLink(RT, l)
            /\ \A g \in NamedFiles(RT, l) :
                 /\ ModulesOf(RT, g) # {}
                 /\ \A m \in ModulesOf(RT, g) :
                      (Module(RT, m).parent = None) <=> ~DeclaredByOwner(g)

\* C7 witness: a tree was returned in which foo.rs declares `mod lib;`, lib.rs
\* exists and has a parentless module
C7_Witness ==
    /\ Returned
    /\ \E l \in NotOwnerLinks(RT) :
         /\ NamedFiles(RT, l) # {}
         /\ \E g \in NamedFiles(RT, l) : ~DeclaredByOwner(g)
         /\ Module(RT, Link(RT, l).owner).source \notin NamedFiles(RT, l)

\* C8: once a cancellation check has reported cancelled, module_tree has
\* returned Cancelled and no tree, whatever the arenas held at that point.
C8_CancelledReturnsNoTree ==
    observed => (pc = "done" /\ result = Cancelled)

\* C8 witness: cancellation was observed by the submodules query of a nested
\* build_subtree, after modules and links had been pushed
C8_Witness ==
    /\ observed
    /\ pc = "done"
    /\ Len(tree.mods) >= 3
    /\ Len(tree.links) >= 2
    /\ \E m \in ModuleIds(tree) :
         /\ m = Len(tree.mods) - 1
         /\ Module(tree, m).parent # None
         /\ Module(tree, ParentOwner(tree, m)).parent # None

-----------------------------------------------------------------------------
(* CrateGraph *)

EmptyGraph == [arena |-> <<>>]

CrateIds(g) == {i - 1 : i \in DOMAIN g.arena}

\* CrateGraph::add_crate_root: the new crate's id is the size of the arena
AddCrateRoot(g, file_id, edition) ==
    [arena |-> Append(g.arena, [file_id |-> file_id, edition |-> edition,
                                dependencies |-> <<>>])]

\* the crates the dependencies of crate c point to
DepsOf(g, c) ==
    {g.arena[c + 1].dependencies[k].crate_id : k \in DOMAIN g.arena[c + 1].dependencies}

\* the crates reached from the crates of frontier by zero or more edges
RECURSIVE ReachableFrom(_, _, _)
ReachableFrom(g, seen, frontier) ==
    IF frontier = {} THEN seen
    ELSE LET now == seen \cup frontier
             nxt == UNION {DepsOf(g, c) : c \in frontier} \ now
         IN  ReachableFrom(g, now, nxt)

\* the edge from -> to would close a directed cycle (a self-loop is one)
WouldCycle(g, from, to) == from \in ReachableFrom(g, {}, {to})

\* CrateGraph::add_dep: Err(CyclicDependencies) and no change if the edge would
\* create a cycle, else the dependency is appended to the crate `from`
AddDep(g, from, name, to) ==
    IF WouldCycle(g, from, to)
    THEN [ok |-> FALSE, graph |-> g]
    ELSE [ok |-> TRUE,
          graph |-> [g EXCEPT !.arena[from + 1].dependencies =
                                 Append(@, [crate_id |-> to, name |-> name])]]

-----------------------------------------------------------------------------
(* to_crate_graph *)

\* faulty variant of Load: a FileId is returned for every path
LoadAll(path) == Some(path)

\* load(path): the FileId of a root file is its interned path
Load(path) == IF path \in loadable THEN Some(path) ELSE None

\* krate.edition of rust-project.json as an Edition of ra_db
EditionOf(e) == IF e = "2015" THEN "Edition2015" ELSE "Edition2018"

\* map.insert(key, value)
MapInsert(m, key, value) ==
    [x \in DOMAIN m \cup {key} |-> IF x = key THEN value ELSE m[x]]

\* pkg_crates.get(&pkg).into_iter().flatten(): the crates of the package
CratesOfPkg(pcs, pkg) == IF pkg \in DOMAIN pcs THEN pcs[pkg] ELSE <<>>

\* pkg_crates.entry(pkg).or_insert_with(Vec::new).push(crate_id)
PushPkgCrate(pcs, pkg, crate_id) ==
    MapInsert(pcs, pkg, Append(CratesOfPkg(pcs, pkg), crate_id))

\* faulty variant of TryAddDep: the dependency is pushed onto the crate
\* without asking add_dep whether it closes a cycle
TryAddDepUnchecked(st, from, name, to, msg) ==
    [graph |-> [st.graph EXCEPT !.arena[from + 1].dependencies =
                                   Append(@, [crate_id |-> to, name |-> name])],
     log   |-> st.log,
     calls |-> Append(st.calls, [op |-> "add_dep", from |-> from, name |-> name,
                                 to |-> to, ok |-> TRUE])]

\* faulty variant of TryAddDep: a rejected dependency is dropped but not logged
TryAddDepSilent(st, from, name, to, msg) ==
    LET r == AddDep(st.graph, from, name, to)
    IN  [graph |-> r.graph,
         log   |-> st.log,
         calls |-> Append(st.calls, [op |-> "add_dep", from |-> from, name |-> name,
                                     to |-> to, ok |-> r.ok])]

\* `if let Err(_) = crate_graph.add_dep(from, name, to) { log::error!(msg) }`:
\* the graph, the log and the call history after the attempt
TryAddDep(st, from, name, to, msg) ==
    LET r == AddDep(st.graph, from, name, to)
    IN  [graph |-> r.graph,
         log   |-> IF r.ok THEN st.log ELSE Append(st.log, msg),
         calls |-> Append(st.calls, [op |-> "add_dep", from |-> from, name |-> name,
                                     to |-> to, ok |-> r.ok])]

\* the graph, the log and the call history as one value
GraphState == [graph |-> crate_graph, log |-> log, calls |-> calls]

Cursor(phase, i, j, k) == [phase |-> phase, i |-> i, j |-> j, k |-> k]

\* the control flow of the loops of to_crate_graph: from a position, the next
\* position at which a loop body runs, or "done"
RECURSIVE Settle(_, _, _, _)
Settle(w, c, pcs, plc) ==
    CASE c.phase = "json_crates" ->
            IF c.i <= Len(w.crates) THEN c
            ELSE Settle(w, Cursor("json_deps", 1, 1, 1), pcs, plc)
      [] c.phase = "json_deps" ->
            IF c.i > Len(w.crates) THEN Cursor("done", 1, 1, 1)
            ELSE IF c.j > Len(w.crates[c.i].deps)
                 THEN Settle(w, Cursor("json_deps", c.i + 1, 1, 1), pcs, plc)
                 ELSE c
      [] c.phase = "sysroot_crates" ->
            IF c.i <= Len(w.sysroot) THEN c
            ELSE Settle(w, Cursor("sysroot_deps", 1, 1, 1), pcs, plc)
      [] c.phase = "sysroot_deps" ->
            IF c.i > Len(w.sysroot)
            THEN Settle(w, Cursor("pkg_targets", 1, 1, 1), pcs, plc)
            ELSE IF c.j > Len(w.sysroot[c.i].deps)
                 THEN Settle(w, Cursor("sysroot_deps", c.i + 1, 1, 1), pcs, plc)
                 ELSE c
      [] c.phase = "pkg_targets" ->
            IF c.i > Len(w.packages)
            THEN Settle(w, Cursor("dependencies", 1, 1, 1), pcs, plc)
            ELSE IF c.j > Len(w.packages[c.i].targets)
                 THEN Settle(w, Cursor("pkg_deps", c.i, 1, 1), pcs, plc)
                 ELSE c
      [] c.phase = "pkg_deps" ->
            IF c.k > Len(CratesOfPkg(pcs, c.i))
            THEN Settle(w, Cursor("pkg_targets", c.i + 1, 1, 1), pcs, plc)
            ELSE c
      [] c.phase = "dependencies" ->
            IF c.i > Len(w.packages) THEN Cursor("done", 1, 1, 1)
            ELSE IF c.j > Len(w.packages[c.i].dependencies)
                 THEN Settle(w, Cursor("dependencies", c.i + 1, 1, 1), pcs, plc)
                 ELSE IF \/ w.packages[c.i].dependencies[c.j].pkg \notin DOMAIN plc
                         \/ c.k > Len(CratesOfPkg(pcs, c.i))
                      THEN Settle(w, Cursor("dependencies", c.i, c.j + 1, 1), pcs, plc)
                      ELSE c
      [] OTHER -> c

\* `let mut lib_tgt = None;` is local to one iteration of `for pkg in ..`
LibTgtAt(c, pkg, value) ==
    IF c.phase \in {"pkg_targets", "pkg_deps"} /\ c.i = pkg THEN value ELSE None

\* sysroot.std().and_then(|it| sysroot_crates.get(&it).copied())
Libstd ==
    LET std == {i \in DOMAIN ws.sysroot : ws.sysroot[i].name = "std"}
    IN  IF std = {} THEN None
        ELSE LET it == CHOOSE i \in std : TRUE
             IN  IF it \in DOMAIN sysroot_crates THEN Some(sysroot_crates[it]) ELSE None

\* Json, first loop: load the crate's root module and add a crate root for it
JsonAddCrate ==
    /\ at.phase = "json_crates"
    /\ LET krate == ws.crates[at.i]
           crate_id == at.i - 1
           file_id == Load(krate.root_module)
       IN  IF IsSome(file_id)
           THEN /\ crate_graph' = AddCrateRoot(crate_graph, Unwrap(file_id),
                                               EditionOf(krate.edition))
                /\ crates' = MapInsert(crates, crate_id, Len(crate_graph.arena))
                /\ calls' = Append(calls, [op |-> "add_crate_root",
                                           id |-> Len(crate_graph.arena)])
           ELSE UNCHANGED <<crate_graph, crates, calls>>
    /\ at' = Settle(ws, [at EXCEPT !.i = @ + 1], pkg_crates, pkg_to_lib_crate)
    /\ UNCHANGED <<ws, loadable, sysroot_crates, pkg_to_lib_crate, pkg_crates,
                   lib_tgt, log>>
    /\ UNCHANGED exceptGraph

\* Json, second loop: one declared dependency
JsonAddDep ==
    /\ at.phase = "json_deps"
    /\ LET dep == ws.crates[at.i].deps[at.j]
           from_crate_id == at.i - 1
           to_crate_id == dep.krate
       IN  IF from_crate_id \in DOMAIN crates /\ to_crate_id \in DOMAIN crates
           THEN LET st == TryAddDep(GraphState, crates[from_crate_id], dep.name,
                                    crates[to_crate_id],
                                    [msg |-> "cyclic dependency",
                                     from |-> from_crate_id, to |-> to_crate_id])
                IN  /\ crate_graph' = st.graph
                    /\ log' = st.log
                    /\ calls' = st.calls
           ELSE UNCHANGED <<crate_graph, log, calls>>
    /\ at' = Settle(ws, [at EXCEPT !.j = @ + 1], pkg_crates, pkg_to_lib_crate)
    /\ UNCHANGED <<ws, loadable, crates, sysroot_crates, pkg_to_lib_crate,
                   pkg_crates, lib_tgt>>
    /\ UNCHANGED exceptGraph

\* Cargo: load one sysroot crate and add a crate root at Edition2015
SysrootAddCrate ==
    /\ at.phase = "sysroot_crates"
    /\ LET krate == at.i
           file_id == Load(ws.sysroot[krate].root)
       IN  IF IsSome(file_id)
           THEN /\ crate_graph' = AddCrateRoot(crate_graph, Unwrap(file_id),
                                               "Edition2015")
                /\ sysroot_crates' = MapInsert(sysroot_crates, krate,
                                               Len(crate_graph.arena))
                /\ calls' = Append(calls, [op |-> "add_crate_root",
                                           id |-> Len(crate_graph.arena)])
           ELSE UNCHANGED <<crate_graph, sysroot_crates, calls>>
    /\ at' = Settle(ws, [at EXCEPT !.i = @ + 1], pkg_crates, pkg_to_lib_crate)
    /\ UNCHANGED <<ws, loadable, crates, pkg_to_lib_crate, pkg_crates, lib_tgt, log>>
    /\ UNCHANGED exceptGraph

\* Cargo: one dependency between sysroot crates, named after its target
SysrootAddDep ==
    /\ at.phase = "sysroot_deps"
    /\ LET from == at.i
           to == ws.sysroot[at.i].deps[at.j]
           name == ws.sysroot[to].name
       IN  IF from \in DOMAIN sysroot_crates /\ to \in DOMAIN sysroot_crates
           THEN LET st == TryAddDep(GraphState, sysroot_crates[from], name,
                                    sysroot_crates[to],
                                    [msg |-> "cyclic dependency between sysroot crates"])
                IN  /\ crate_graph' = st.graph
                    /\ log' = st.log
                    /\ calls' = st.calls
           ELSE UNCHANGED <<crate_graph, log, calls>>
    /\ at' = Settle(ws, [at EXCEPT !.j = @ + 1], pkg_crates, pkg_to_lib_crate)
    /\ UNCHANGED <<ws, loadable, crates, sysroot_crates, pkg_to_lib_crate,
                   pkg_crates, lib_tgt>>
    /\ UNCHANGED exceptGraph

\* faulty variant of LibDep: the arguments `from` and `to` are exchanged
LibDepSwapped(st, from, lib, pkg_name) ==
    IF IsSome(lib) /\ Unwrap(lib) # from
    THEN TryAddDep(st, Unwrap(lib), pkg_name, from,
                   [msg |-> "cyclic dependency between targets of", pkg |-> pkg_name])
    ELSE st

\* `if let Some(to) = lib_tgt { if to != from { add_dep(from, pkg.name, to) } }`
LibDep(st, from, lib, pkg_name) ==
    IF IsSome(lib) /\ Unwrap(lib) # from
    THEN TryAddDep(st, from, pkg_name, Unwrap(lib),
                   [msg |-> "cyclic dependency between targets of", pkg |-> pkg_name])
    ELSE st

\* `if let Some(std) = libstd { add_dep(from, "std", std) }`
StdDep(st, from, libstd, pkg_name) ==
    IF IsSome(libstd)
    THEN TryAddDep(st, from, "std", Unwrap(libstd),
                   [msg |-> "cyclic dependency on std for", pkg |-> pkg_name])
    ELSE st

\* faulty variant of PkgAddTarget: the dependencies of a target on the library
\* target and on std are added as soon as the target is, inside `for tgt in ..`
PkgAddTargetEager ==
    /\ at.phase = "pkg_targets"
    /\ LET pkg == at.i
           tgt == ws.packages[pkg].targets[at.j]
           file_id == Load(tgt.root)
           crate_id == Len(crate_graph.arena)
           is_lib == tgt.kind = "Lib"
           pcs == IF IsSome(file_id) THEN PushPkgCrate(pkg_crates, pkg, crate_id)
                  ELSE pkg_crates
           plc == IF IsSome(file_id) /\ is_lib
                  THEN MapInsert(pkg_to_lib_crate, pkg, crate_id)
                  ELSE pkg_to_lib_crate
           lib == IF IsSome(file_id) /\ is_lib THEN Some(crate_id) ELSE lib_tgt
           next == Settle(ws, [at EXCEPT !.j = @ + 1], pcs, plc)
       IN  /\ IF IsSome(file_id)
              THEN LET added == [graph |-> AddCrateRoot(crate_graph, Unwrap(file_id),
                                                        ws.packages[pkg].edition),
                                 log   |-> log,
                                 calls |-> Append(calls, [op |-> "add_crate_root",
                                                          id |-> crate_id])]
                       st == StdDep(LibDep(added, crate_id, lib, ws.packages[pkg].name),
                                    crate_id, Libstd, ws.packages[pkg].name)
                   IN  /\ crate_graph' = st.graph
                       /\ log' = st.log
                       /\ calls' = st.calls
              ELSE UNCHANGED <<crate_graph, log, calls>>
           /\ pkg_crates' = pcs
           /\ pkg_to_lib_crate' = plc
           /\ lib_tgt' = LibTgtAt(next, pkg, lib)
           /\ at' = next
    /\ UNCHANGED <<ws, loadable, crates, sysroot_crates>>
    /\ UNCHANGED exceptGraph

\* Cargo: load one target of a package and add a crate root for it
PkgAddTarget ==
    /\ at.phase = "pkg_targets"
    /\ LET pkg == at.i
           tgt == ws.packages[pkg].targets[at.j]
           file_id == Load(tgt.root)
           crate_id == Len(crate_graph.arena)
           is_lib == tgt.kind = "Lib"
           pcs == IF IsSome(file_id) THEN PushPkgCrate(pkg_crates, pkg, crate_id)
                  ELSE pkg_crates
           plc == IF IsSome(file_id) /\ is_lib
                  THEN MapInsert(pkg_to_lib_crate, pkg, crate_id)
                  ELSE pkg_to_lib_crate
           next == Settle(ws, [at EXCEPT !.j = @ + 1], pcs, plc)
       IN  /\ IF IsSome(file_id)
              THEN /\ crate_graph' = AddCrateRoot(crate_graph, Unwrap(file_id),
                                                  ws.packages[pkg].edition)
                   /\ calls' = Append(calls, [op |-> "add_crate_root", id |-> crate_id])
              ELSE UNCHANGED <<crate_graph, calls>>
           /\ pkg_crates' = pcs
           /\ pkg_to_lib_crate' = plc
           /\ lib_tgt' = LibTgtAt(next, pkg, IF IsSome(file_id) /\ is_lib
                                             THEN Some(crate_id) ELSE lib_tgt)
           /\ at' = next
    /\ UNCHANGED <<ws, loadable, crates, sysroot_crates, log>>
    /\ UNCHANGED exceptGraph

\* Cargo: for one crate of the package, the dependency on the package's
\* library target and the dependency on std
PkgAddDeps ==
    /\ at.phase = "pkg_deps"
    /\ LET pkg == at.i
           from == CratesOfPkg(pkg_crates, pkg)[at.k]
           name == ws.packages[pkg].name
           st == StdDep(LibDep(GraphState, from, lib_tgt, name), from, Libstd, name)
           next == Settle(ws, [at EXCEPT !.k = @ + 1], pkg_crates, pkg_to_lib_crate)
       IN  /\ crate_graph' = st.graph
           /\ log' = st.log
           /\ calls' = st.calls
           /\ lib_tgt' = LibTgtAt(next, pkg, lib_tgt)
           /\ at' = next
    /\ UNCHANGED <<ws, loadable, crates, sysroot_crates, pkg_to_lib_crate, pkg_crates>>
    /\ UNCHANGED exceptGraph

\* faulty variant of CargoAddDep: the edge is named after the package depended
\* on instead of the alias of the dependency
CargoAddDepPkgName ==
    /\ at.phase = "dependencies"
    /\ LET pkg == at.i
           dep == ws.packages[pkg].dependencies[at.j]
           to == pkg_to_lib_crate[dep.pkg]
           from == CratesOfPkg(pkg_crates, pkg)[at.k]
           st == TryAddDep(GraphState, from, ws.packages[dep.pkg].name, to,
                           [msg |-> "cyclic dependency", from |-> ws.packages[pkg].name,
                            to |-> ws.packages[dep.pkg].name])
       IN  /\ crate_graph' = st.graph
           /\ log' = st.log
           /\ calls' = st.calls
    /\ at' = Settle(ws, [at EXCEPT !.k = @ + 1], pkg_crates, pkg_to_lib_crate)
    /\ UNCHANGED <<ws, loadable, crates, sysroot_crates, pkg_to_lib_crate,
                   pkg_crates, lib_tgt>>
    /\ UNCHANGED exceptGraph

\* Cargo, last loop: the dependency of one crate of a package on the library
\* target of a package it depends on
CargoAddDep ==
    /\ at.phase = "dependencies"
    /\ LET pkg == at.i
           dep == ws.packages[pkg].dependencies[at.j]
           to == pkg_to_lib_crate[dep.pkg]
           from == CratesOfPkg(pkg_crates, pkg)[at.k]
           st == TryAddDep(GraphState, from, dep.name, to,
                           [msg |-> "cyclic dependency", from |-> ws.packages[pkg].name,
                            to |-> ws.packages[dep.pkg].name])
       IN  /\ crate_graph' = st.graph
           /\ log' = st.log
           /\ calls' = st.calls
    /\ at' = Settle(ws, [at EXCEPT !.k = @ + 1], pkg_crates, pkg_to_lib_crate)
    /\ UNCHANGED <<ws, loadable, crates, sysroot_crates, pkg_to_lib_crate,
                   pkg_crates, lib_tgt>>
    /\ UNCHANGED exceptGraph

-----------------------------------------------------------------------------
(* Inputs of to_crate_graph *)

\* flat lists of <<declaring crate, dependency>> in declaration order
JsonDepLists(n) ==
    {d \in SeqsUpTo((1..n) \X [krate : 0..n, name : {"a"}], MaxJsonDeps) :
        \A x, y \in DOMAIN d : x < y => d[x][1] <= d[y][1]}

RECURSIVE DepsOfCrate(_, _)
DepsOfCrate(d, i) ==
    IF d = <<>> THEN <<>>
    ELSE IF Head(d)[1] = i THEN <<Head(d)[2]>> \o DepsOfCrate(Tail(d), i)
         ELSE DepsOfCrate(Tail(d), i)

\* rust-project.json files: crate i has root module <<"crate", i>>; krate = n
\* indexes no crate
JsonProjects ==
    {[kind   |-> "Json",
      crates |-> [i \in 1..n |->
                    [root_module |-> <<"crate", i>>,
                     edition     |-> IF (i + e) % 2 = 0 THEN "2015" ELSE "2018",
                     deps        |-> DepsOfCrate(d, i)]]] :
        <<n, e, d>> \in {x \in (1..MaxCrates) \X {0, 1} \X JsonDepLists(MaxCrates) :
                            \A k \in DOMAIN x[3] :
                                x[3][k][1] <= x[1] /\ x[3][k][2].krate <= x[1]}}

\* sysroots: none, std alone, std depending on core, and a cyclic declaration
Sysroots ==
    {<<>>,
     <<[name |-> "std", root |-> <<"sysroot", 1>>, deps |-> <<>>]>>,
     <<[name |-> "core", root |-> <<"sysroot", 1>>, deps |-> <<>>],
       [name |-> "std", root |-> <<"sysroot", 2>>, deps |-> <<1>>]>>,
     <<[name |-> "core", root |-> <<"sysroot", 1>>, deps |-> <<2>>],
       [name |-> "std", root |-> <<"sysroot", 2>>, deps |-> <<1>>]>>}

PkgName(p) == <<"p1", "p2", "p3", "p4">>[p]

DepName(p) == <<"d1", "d2", "d3", "d4">>[p]

\* the kinds of the targets of a package: at most one library target
TargetKinds ==
    {s \in SeqsUpTo({"Lib", "Bin"}, MaxTargets) :
        Cardinality({i \in DOMAIN s : s[i] = "Lib"}) <= 1}

\* the dependencies of a package: none or one, on any package or on itself
PkgDependencies(n) ==
    {<<>>} \cup {<<[pkg |-> q, name |-> DepName(q)]>> : q \in 1..n}

\* Cargo workspaces: target t of package p has root <<"pkg", p, t>>
CargoWorkspaces ==
    {[kind     |-> "Cargo",
      sysroot  |-> sys,
      packages |-> [p \in 1..n |->
                      [name         |-> PkgName(p),
                       edition      |-> IF p % 2 = 1 THEN "Edition2018" ELSE "Edition2015",
                       targets      |-> [t \in DOMAIN kinds[p] |->
                                           [kind |-> kinds[p][t], root |-> <<"pkg", p, t>>]],
                       dependencies |-> deps[p]]]] :
        <<n, sys, kinds, deps>> \in
            UNION {{<<m, sy, ks, ds>> : sy \in Sysroots, ks \in [1..m -> TargetKinds],
                                        ds \in [1..m -> PkgDependencies(m)]} :
                   m \in 1..MaxPkgs}}

\* the root paths of a workspace
RootsOf(w) ==
    IF w.kind = "Json" THEN {w.crates[i].root_module : i \in DOMAIN w.crates}
    ELSE {w.sysroot[i].root : i \in DOMAIN w.sysroot}
           \cup UNION {{w.packages[p].targets[t].root : t \in DOMAIN w.packages[p].targets} :
                       p \in DOMAIN w.packages}

\* the loaders: all roots load but at most MaxUnloaded of them
Loaders(w) ==
    {RootsOf(w) \ u : u \in {x \in SUBSET RootsOf(w) : Cardinality(x) <= MaxUnloaded}}

\* module_tree is not running
NoBuild ==
    /\ memo = {}
    /\ files = {}
    /\ submods = EmptyMap
    /\ order = <<>>
    /\ canceled = FALSE
    /\ observed = FALSE
    /\ pc = "idle"
    /\ idx = 1
    /\ tree = EmptyTree
    /\ visited = {}
    /\ roots = EmptyMap
    /\ stack = <<>>
    /\ result = NotReturned
    /\ run = 1
    /\ prev = None

\* to_crate_graph starts: `let mut crate_graph = CrateGraph::default();`
InitProjection ==
    /\ crate_graph = EmptyGraph
    /\ crates = EmptyMap
    /\ sysroot_crates = EmptyMap
    /\ pkg_to_lib_crate = EmptyMap
    /\ pkg_crates = EmptyMap
    /\ lib_tgt = None
    /\ log = <<>>
    /\ calls = <<>>

InitJson ==
    /\ ws \in JsonProjects
    /\ loadable \in Loaders(ws)
    /\ at = Settle(ws, Cursor("json_crates", 1, 1, 1), EmptyMap, EmptyMap)

InitCargo ==
    /\ ws \in CargoWorkspaces
    /\ loadable \in Loaders(ws)
    /\ at = Settle(ws, Cursor("sysroot_crates", 1, 1, 1), EmptyMap, EmptyMap)

InitGraph ==
    /\ NoBuild
    /\ NoScope
    /\ NoDiscovery
    /\ NoRoot
    /\ InitProjection
    /\ (InitJson \/ InitCargo)

NextGraph ==
    \/ JsonAddCrate
    \/ JsonAddDep
    \/ SysrootAddCrate
    \/ SysrootAddDep
    \/ PkgAddTarget
    \/ PkgAddDeps
    \/ CargoAddDep

SpecGraph == InitGraph /\ [][NextGraph]_vars

-----------------------------------------------------------------------------
(* Reading the crate graph *)

Projected == ws.kind \in {"Json", "Cargo"} /\ at.phase = "done"

\* no crate reaches itself through one or more dependencies
Acyclic(g) ==
    \A c \in CrateIds(g) : c \notin ReachableFrom(g, {}, DepsOf(g, c))

\* the add_dep calls made so far, and those of them that returned Err
AddDepCalls == {k \in DOMAIN calls : calls[k].op = "add_dep"}

RejectedCalls == {k \in AddDepCalls : ~calls[k].ok}

\* the dependencies the accepted add_dep calls gave crate c, in call order
RECURSIVE AcceptedDeps(_, _)
AcceptedDeps(cs, c) ==
    IF cs = <<>> THEN <<>>
    ELSE LET x == Head(cs)
         IN  (IF x.op = "add_dep" /\ x.ok /\ x.from = c
              THEN <<[crate_id |-> x.to, name |-> x.name]>> ELSE <<>>)
               \o AcceptedDeps(Tail(cs), c)

RECURSIVE Sum(_, _)
Sum(f, S) ==
    IF S = {} THEN 0
    ELSE LET x == CHOOSE y \in S : TRUE IN f[x] + Sum(f, S \ {x})

\* the number of add_dep calls a projection that never stops early makes for
\* the crates that were loaded
ExpectedCalls ==
    IF ws.kind = "Json"
    THEN Cardinality({x \in (DOMAIN ws.crates) \X (1..MaxJsonDeps) :
            /\ x[2] <= Len(ws.crates[x[1]].deps)
            /\ x[1] - 1 \in DOMAIN crates
            /\ ws.crates[x[1]].deps[x[2]].krate \in DOMAIN crates})
    ELSE LET P == DOMAIN ws.packages
             n == [p \in P |-> Len(CratesOfPkg(pkg_crates, p))]
             sys == Cardinality({x \in (DOMAIN ws.sysroot) \X (DOMAIN ws.sysroot) :
                        /\ x[2] <= Len(ws.sysroot[x[1]].deps)
                        /\ x[1] \in DOMAIN sysroot_crates
                        /\ ws.sysroot[x[1]].deps[x[2]] \in DOMAIN sysroot_crates})
             lib == [p \in P |-> IF p \in DOMAIN pkg_to_lib_crate THEN n[p] - 1 ELSE 0]
             std == [p \in P |-> IF IsSome(Libstd) THEN n[p] ELSE 0]
             dep == [p \in P |->
                       Sum([j \in DOMAIN ws.packages[p].dependencies |->
                              IF ws.packages[p].dependencies[j].pkg \in DOMAIN pkg_to_lib_crate
                              THEN n[p] ELSE 0],
                           DOMAIN ws.packages[p].dependencies)]
         IN  sys + Sum(lib, P) + Sum(std, P) + Sum(dep, P)

-----------------------------------------------------------------------------
(* Claims about the crate graph *)

\* C9: the crate graph never holds a directed cycle or a self-loop; an add_dep
\* that would close a cycle is rejected, logged once and its edge dropped, so
\* the graph holds exactly the accepted edges; and the projection goes on to
\* attempt every remaining edge.
C9_GraphAcyclic ==
    /\ Acyclic(crate_graph)
    /\ \A k \in AddDepCalls :
         calls[k].ok <=>
            calls[k].from \notin
                ReachableFrom([arena |-> [i \in DOMAIN crate_graph.arena |->
                     [dependencies |-> AcceptedDeps(SubSeq(calls, 1, k - 1), i - 1)]]],
                   {}, {calls[k].to})
    /\ Len(log) = Cardinality(RejectedCalls)
    /\ \A c \in CrateIds(crate_graph) :
         crate_graph.arena[c + 1].dependencies = AcceptedDeps(calls, c)
    /\ Projected => Cardinality(AddDepCalls) = ExpectedCalls

\* C9 witness: the projection finished after an add_dep was rejected and a
\* later add_dep was accepted
C9_Witness ==
    /\ Projected
    /\ \E j, k \in AddDepCalls : j < k /\ ~calls[j].ok /\ calls[k].ok

\* the crate added for target t of package p
CrateOfTarget(p, t) ==
    CHOOSE c \in CrateIds(crate_graph) :
        crate_graph.arena[c + 1].file_id = ws.packages[p].targets[t].root

\* C10: in the graph projected from a Cargo workspace every loaded non-library
\* target has a dependency, named after the package, on the loaded library
\* target of its package; no such dependency is rejected as cyclic; and no
\* crate depends on itself.
C10_TargetsDependOnLib ==
    (Projected /\ ws.kind = "Cargo") =>
        /\ \A p \in DOMAIN ws.packages :
             \A t, l \in DOMAIN ws.packages[p].targets :
                (/\ ws.packages[p].targets[l].kind = "Lib"
                 /\ ws.packages[p].targets[t].kind # "Lib"
                 /\ ws.packages[p].targets[l].root \in loadable
                 /\ ws.packages[p].targets[t].root \in loadable)
                => \E k \in DOMAIN crate_graph.arena[CrateOfTarget(p, t) + 1].dependencies :
                     crate_graph.arena[CrateOfTarget(p, t) + 1].dependencies[k] =
                        [crate_id |-> CrateOfTarget(p, l), name |-> ws.packages[p].name]
        /\ \A k \in DOMAIN log : log[k].msg # "cyclic dependency between targets of"
        /\ \A c \in CrateIds(crate_graph) : c \notin DepsOf(crate_graph, c)

\* C10 witness: a Cargo workspace with std was projected; a package lists a
\* binary target before its library target, both loaded, and a dependency
\* between packages was rejected as cyclic
C10_Witness ==
    /\ Projected
    /\ ws.kind = "Cargo"
    /\ IsSome(Libstd)
    /\ \E p \in DOMAIN ws.packages :
         /\ Len(ws.packages[p].targets) = 2
         /\ ws.packages[p].targets[1].kind = "Bin"
         /\ ws.packages[p].targets[2].kind = "Lib"
         /\ Len(CratesOfPkg(pkg_crates, p)) = 2
    /\ \E k \in DOMAIN log : log[k].msg = "cyclic dependency"

-----------------------------------------------------------------------------
(* Claims about the graph of a rust-project.json *)

\* declared crate i (1-based position in project.crates) has a root module the
\* loader returns a file for
JsonLoaded(i) == i \in DOMAIN ws.crates /\ ws.crates[i].root_module \in loadable

\* the CrateId the graph gives declared crate i: the loaded crates before it
JsonNode(i) == Cardinality({j \in 1..(i - 1) : JsonLoaded(j)})

\* the declared dependencies <<declaring crate, position in deps>>
JsonDeclared ==
    {x \in (DOMAIN ws.crates) \X (1..MaxJsonDeps) : x[2] <= Len(ws.crates[x[1]].deps)}

\* the declared dependencies whose two endpoints were loaded
JsonLoadedDeps ==
    {x \in JsonDeclared : /\ JsonLoaded(x[1])
                          /\ JsonLoaded(ws.crates[x[1]].deps[x[2]].krate + 1)}

\* the add_dep call a declared dependency with loaded endpoints stands for
JsonEdge(x) ==
    [from |-> JsonNode(x[1]),
     name |-> ws.crates[x[1]].deps[x[2]].name,
     to   |-> JsonNode(ws.crates[x[1]].deps[x[2]].krate + 1)]

\* C11: the graph projected from a rust-project.json has one node per declared
\* crate whose root module loaded, with the file the loader returned and the
\* declared edition; add_dep is called for the declared dependencies whose
\* source and target both loaded and for no other; a dependency with an
\* unloaded or out-of-range endpoint leaves no log entry: every log entry
\* names a declared dependency between two loaded crates.
C11_JsonNodesAndSkippedDeps ==
    (Projected /\ ws.kind = "Json") =>
        /\ Len(crate_graph.arena) = Cardinality({i \in DOMAIN ws.crates : JsonLoaded(i)})
        /\ \A i \in DOMAIN ws.crates :
             JsonLoaded(i) =>
                /\ crate_graph.arena[JsonNode(i) + 1].file_id = ws.crates[i].root_module
                /\ crate_graph.arena[JsonNode(i) + 1].edition =
                      (IF ws.crates[i].edition = "2015" THEN "Edition2015"
                       ELSE "Edition2018")
        /\ Cardinality(AddDepCalls) = Cardinality(JsonLoadedDeps)
        /\ \A k \in AddDepCalls :
             \E x \in JsonLoadedDeps :
                JsonEdge(x) = [from |-> calls[k].from, name |-> calls[k].name,
                               to |-> calls[k].to]
        /\ \A k \in DOMAIN log :
             \E x \in JsonLoadedDeps :
                /\ log[k].from = x[1] - 1
                /\ log[k].to = ws.crates[x[1]].deps[x[2]].krate
        /\ Len(log) <= Cardinality(JsonLoadedDeps)

\* C11 witness: a rust-project.json was projected in which a crate did not
\* load, one dependency names the unloaded crate, one names a crate index
\* out of range, and one was attempted
C11_Witness ==
    /\ Projected
    /\ ws.kind = "Json"
    /\ \E i \in DOMAIN ws.crates : ~JsonLoaded(i)
    /\ \E x \in JsonDeclared :
         /\ ws.crates[x[1]].deps[x[2]].krate + 1 \in DOMAIN ws.crates
         /\ ~JsonLoaded(ws.crates[x[1]].deps[x[2]].krate + 1)
    /\ \E x \in JsonDeclared : ws.crates[x[1]].deps[x[2]].krate + 1 \notin DOMAIN ws.crates
    /\ AddDepCalls # {}
    /\ Len(crate_graph.arena) < Len(ws.crates)

\* the declared dependencies in declaration order: by crate, then by position
RECURSIVE JsonDepsInOrder(_, _)
JsonDepsInOrder(i, j) ==
    IF i > Len(ws.crates) THEN <<>>
    ELSE IF j > Len(ws.crates[i].deps) THEN JsonDepsInOrder(i + 1, 1)
    ELSE (IF <<i, j>> \in JsonLoadedDeps THEN <<JsonEdge(<<i, j>>)>> ELSE <<>>)
            \o JsonDepsInOrder(i, j + 1)

\* the add_dep calls made so far, in call order, without their outcome
RECURSIVE AttemptsOf(_)
AttemptsOf(cs) ==
    IF cs = <<>> THEN <<>>
    ELSE (IF Head(cs).op = "add_dep"
          THEN <<[from |-> Head(cs).from, name |-> Head(cs).name, to |-> Head(cs).to]>>
          ELSE <<>>) \o AttemptsOf(Tail(cs))

\* the crates reached from declared crate c by following, n times, the first
\* declared dependency
RECURSIVE JsonOrbit(_, _)
JsonOrbit(c, n) ==
    IF n = 0 THEN {}
    ELSE {c} \cup JsonOrbit(ws.crates[c + 1].deps[1].krate, n - 1)

\* all declared crates load and their dependencies form one directed cycle
\* through all of them
JsonSingleCycle ==
    /\ \A i \in DOMAIN ws.crates :
         /\ JsonLoaded(i)
         /\ Len(ws.crates[i].deps) = 1
         /\ ws.crates[i].deps[1].krate + 1 \in DOMAIN ws.crates
    /\ JsonOrbit(0, Len(ws.crates)) = {i - 1 : i \in DOMAIN ws.crates}

\* the number of dependencies the graph holds
EdgeCount(g) ==
    Sum([i \in DOMAIN g.arena |-> Len(g.arena[i].dependencies)], DOMAIN g.arena)

\* C14: the add_dep calls of the Json projection are the declared dependencies
\* between loaded crates in declaration order; a call is rejected only if its
\* target reached its source through the edges accepted before it; and when
\* all crates load and the dependencies form one cycle of length n, the graph
\* has n nodes and n - 1 edges and the log has one entry.
C14_JsonCycleDropsOneEdge ==
    (Projected /\ ws.kind = "Json") =>
        /\ AttemptsOf(calls) = JsonDepsInOrder(1, 1)
        /\ \A k \in RejectedCalls :
             calls[k].from \in
                ReachableFrom([arena |-> [i \in DOMAIN crate_graph.arena |->
                     [dependencies |-> AcceptedDeps(SubSeq(calls, 1, k - 1), i - 1)]]],
                   {}, {calls[k].to})
        /\ JsonSingleCycle =>
             /\ Len(crate_graph.arena) = Len(ws.crates)
             /\ EdgeCount(crate_graph) = Len(ws.crates) - 1
             /\ Len(log) = 1

\* C14 witness: three crates A -> B -> C -> A were projected and the edge
\* C -> A, attempted last, is the one that was dropped
C14_Witness ==
    /\ Projected
    /\ ws.kind = "Json"
    /\ Len(ws.crates) = 3
    /\ JsonSingleCycle
    /\ ws.crates[1].deps[1].krate = 1
    /\ ws.crates[2].deps[1].krate = 2
    /\ ws.crates[3].deps[1].krate = 0
    /\ DepsOf(crate_graph, 2) = {}
    /\ Len(log) = 1

-----------------------------------------------------------------------------
(* Claims about the graph of a Cargo workspace *)

\* target t of package p was loaded
TargetLoaded(p, t) ==
    t \in DOMAIN ws.packages[p].targets /\ ws.packages[p].targets[t].root \in loadable

\* the loaded library targets of package p
LoadedLibs(p) ==
    {l \in DOMAIN ws.packages[p].targets :
        ws.packages[p].targets[l].kind = "Lib" /\ TargetLoaded(p, l)}

\* the add_dep calls made for dependency j of package p from its target t
DepCalls(p, j, t) ==
    {k \in AddDepCalls : /\ calls[k].from = CrateOfTarget(p, t)
                         /\ calls[k].name = ws.packages[p].dependencies[j].name}

\* the log entries written for a rejected dependency of package p on package q
DepLogs(p, q) ==
    {k \in DOMAIN log : /\ log[k].msg = "cyclic dependency"
                        /\ log[k].from = ws.packages[p].name
                        /\ log[k].to = ws.packages[q].name}

\* C17: in the graph projected from a Cargo workspace, for every dependency of
\* a package P on a package Q with a loaded library target, add_dep was called
\* once from each loaded target of P to that library target under the alias of
\* the dependency; the edge is in the graph unless the library target already
\* reached the target of P when the call was made, and then the rejection is
\* logged and every other edge is kept; a dependency on a package without a
\* loaded library target causes no call and no log entry.
C17_InterPackageEdges ==
    (Projected /\ ws.kind = "Cargo") =>
        \A p \in DOMAIN ws.packages :
            \A j \in DOMAIN ws.packages[p].dependencies :
                LET q == ws.packages[p].dependencies[j].pkg
                    alias == ws.packages[p].dependencies[j].name
                    mine == {t \in DOMAIN ws.packages[p].targets : TargetLoaded(p, t)}
                IN  IF LoadedLibs(q) # {}
                    THEN LET lib == CrateOfTarget(q, CHOOSE l \in LoadedLibs(q) : TRUE)
                         IN  /\ \A t \in mine :
                                  /\ Cardinality(DepCalls(p, j, t)) = 1
                                  /\ \A k \in DepCalls(p, j, t) :
                                       /\ calls[k].to = lib
                                       /\ calls[k].ok <=>
                                            \E d \in DOMAIN crate_graph.arena[
                                                       CrateOfTarget(p, t) + 1].dependencies :
                                               crate_graph.arena[CrateOfTarget(p, t) + 1]
                                                   .dependencies[d] =
                                                      [crate_id |-> lib, name |-> alias]
                                       /\ ~calls[k].ok =>
                                            CrateOfTarget(p, t) \in
                                               ReachableFrom(
                                                  [arena |-> [i \in DOMAIN crate_graph.arena |->
                                                     [dependencies |->
                                                        AcceptedDeps(SubSeq(calls, 1, k - 1),
                                                                     i - 1)]]],
                                                  {}, {lib})
                             /\ Cardinality(DepLogs(p, q)) =
                                   Cardinality({t \in mine :
                                       \E k \in DepCalls(p, j, t) : ~calls[k].ok})
                    ELSE /\ \A t \in mine : DepCalls(p, j, t) = {}
                         /\ DepLogs(p, q) = {}

\* C17 witness: two packages depend on each other; the library target of the
\* first got its edge to the library of the second, a target of the second was
\* refused its edge back and another edge was accepted after that refusal
C17_Witness ==
    /\ Projected
    /\ ws.kind = "Cargo"
    /\ Len(ws.packages) = 2
    /\ LoadedLibs(1) # {}
    /\ LoadedLibs(2) # {}
    /\ \E k \in AddDepCalls : calls[k].name = DepName(2) /\ calls[k].ok
    /\ \E j, k \in AddDepCalls :
         /\ j < k
         /\ calls[j].name = DepName(1) /\ ~calls[j].ok
         /\ calls[k].name = DepName(1) /\ calls[k].ok

\* the CrateIds of the sysroot crates
SysrootIds == {sysroot_crates[x] : x \in DOMAIN sysroot_crates}

\* the add_dep calls that are not dependencies between sysroot crates
PackageEdgeCalls == {k \in AddDepCalls : calls[k].from \notin SysrootIds}

\* the package whose target crate c is
PkgOfCrate(c) == crate_graph.arena[c + 1].file_id[2]

\* the aliases of the dependencies between packages
Aliases ==
    UNION {{ws.packages[p].dependencies[j].name : j \in DOMAIN ws.packages[p].dependencies} :
           p \in DOMAIN ws.packages}

\* C18 (as stated): no crate is added to the graph after add_dep was called
\* for an edge of a package or of a declared crate.
C18_NoNodeAfterEdge ==
    \A j \in PackageEdgeCalls :
        \A k \in DOMAIN calls : calls[k].op = "add_crate_root" => k < j

\* C18 (amended): a crate is added before every edge it is an endpoint of. In
\* the Json variant no crate is added after an add_dep call. In the Cargo
\* variant a crate added after an add_dep call is a target of a package, the
\* call was made for sysroot crates or for the targets of another package, and
\* it was not a call for a dependency between packages.
C18_NodesBeforeTheirEdges ==
    \A j \in AddDepCalls :
        \A k \in DOMAIN calls :
            (calls[k].op = "add_crate_root" /\ j < k) =>
                /\ ws.kind = "Cargo"
                /\ calls[k].id \notin {calls[j].from, calls[j].to}
                /\ calls[k].id \notin SysrootIds
                /\ calls[j].name \notin Aliases
                /\ j \in PackageEdgeCalls => PkgOfCrate(calls[j].from) # PkgOfCrate(calls[k].id)

\* C18 witness: a Cargo workspace with two packages was projected, and a
\* target of the second package was added after an edge between the targets
\* of the first package had been attempted
C18_Witness ==
    /\ Projected
    /\ ws.kind = "Cargo"
    /\ \E j \in PackageEdgeCalls :
         \E k \in DOMAIN calls :
            /\ j < k
            /\ calls[k].op = "add_crate_root"
            /\ calls[j].name = ws.packages[1].name
            /\ PkgOfCrate(calls[k].id) = 2

-----------------------------------------------------------------------------
(* Claims about the descent and the orphan-roots map *)

\* C19 (as stated): create_module_tree terminates for every source root: the
\* recursion of build_subtree never exhausts the stack of its thread.
C19_DescentTerminates == pc # "overflow"

\* C20: the assertion of the outer loop of create_module_tree never fails, and
\* between two iterations of that loop the keys of roots are visited files,
\* every key maps to a module built for that file whose parent is None, and
\* every module whose parent is None is the value of the key of its file; so
\* an adopted module is not a key and roots.insert never recorded a module
\* that has a parent.
C20_RootsAreTheParentless ==
    /\ pc # "panic"
    /\ pc = "loop" =>
         /\ DOMAIN roots \subseteq visited
         /\ \A f \in DOMAIN roots :
              /\ roots[f] \in ModuleIds(tree)
              /\ Module(tree, roots[f]).source = f
              /\ Module(tree, roots[f]).parent = None
         /\ \A m \in ModuleIds(tree) :
              Module(tree, m).parent = None =>
                 /\ Module(tree, m).source \in DOMAIN roots
                 /\ roots[Module(tree, m).source] = m

\* C20 witness: between two iterations of the outer loop, after a module that
\* was recorded in roots has been adopted and removed, while another module is
\* still recorded and files remain to be visited
C20_Witness ==
    /\ pc = "loop"
    /\ idx > 2
    /\ idx <= Len(order)
    /\ \E m \in ModuleIds(tree) : Adopted(tree, m)
    /\ DOMAIN roots # {}
    /\ visited \ DOMAIN roots # {}

-----------------------------------------------------------------------------
(* ProjectWorkspace::discover *)

\* directories nest at most this deep below the filesystem root
MaxDirs == 2

\* the directory at depth d: / , /a , /a/b , ...; a path is the sequence of
\* its components and the filesystem root is the empty sequence
DirAt(d) == SubSeq(<<"a", "b", "c", "d">>, 1, d)

ManifestNames == {"Cargo.toml", "rust-project.json"}

\* Path::ends_with(name) for a name of one component
EndsWith(path, name) == path # <<>> /\ path[Len(path)] = name

\* Path::join(name)
Join(path, name) == Append(path, name)

\* Path::parent: None for the filesystem root
Parent(path) ==
    IF path = <<>> THEN None ELSE Some(SubSeq(path, 1, Len(path) - 1))

\* Path::exists for a candidate manifest
Exists(path) == path \in manifests

\* the results of discover
DiscoveredJson(path) == [kind |-> "Json", manifest |-> path]

DiscoveredCargo(path) == [kind |-> "Cargo", manifest |-> path]

\* an error of reading or parsing a manifest, raised by `?`
LoadError(path) == [kind |-> "Err", msg |-> "load", path |-> path]

\* faulty variant of NotFound: the message names the last path the walk visited
NotFoundLast(path, last) ==
    [kind |-> "Err", msg |-> "can't find Cargo.toml at", path |-> last]

\* Err(format!("can't find Cargo.toml at {}", path.display())): `path` is the
\* parameter of find_cargo_toml; the loop variable of the same name is out of
\* scope here
NotFound(path, last) ==
    [kind |-> "Err", msg |-> "can't find Cargo.toml at", path |-> path]

\* find_rust_project_json: the test of the path itself, before the walk
FindJsonStart ==
    /\ dpc = "start"
    /\ IF EndsWith(dpath, "rust-project.json")
       THEN /\ manifest' = Some(dpath)
            /\ dpc' = "open_json"
            /\ UNCHANGED curr
       ELSE /\ curr' = Some(dpath)
            /\ dpc' = "json_walk"
            /\ UNCHANGED manifest
    /\ UNCHANGED <<manifests, dpath, loads_ok, probed, dresult>>
    /\ UNCHANGED <<treeVars, scopeVars, graphVars, rootVars>>

\* find_rust_project_json: one iteration of `while let Some(path) = curr`;
\* None is returned when the walk has passed the filesystem root
FindJsonStep ==
    /\ dpc = "json_walk"
    /\ LET path == Unwrap(curr)
           candidate == Join(path, "rust-project.json")
       IN  /\ probed' = Append(probed, candidate)
           /\ IF Exists(candidate)
              THEN /\ manifest' = Some(candidate)
                   /\ dpc' = "open_json"
                   /\ UNCHANGED curr
              ELSE /\ curr' = Parent(path)
                   /\ dpc' = IF Parent(path) = None THEN "cargo_start" ELSE "json_walk"
                   /\ UNCHANGED manifest
    /\ UNCHANGED <<manifests, dpath, loads_ok, dresult>>
    /\ UNCHANGED <<treeVars, scopeVars, graphVars, rootVars>>

\* discover, Some(json_path): File::open(json_path)? and from_reader(reader)?
OpenJson ==
    /\ dpc = "open_json"
    /\ dresult' = IF Exists(Unwrap(manifest)) /\ loads_ok
                  THEN DiscoveredJson(Unwrap(manifest))
                  ELSE LoadError(Unwrap(manifest))
    /\ dpc' = "done"
    /\ UNCHANGED <<manifests, dpath, loads_ok, curr, manifest, probed>>
    /\ UNCHANGED <<treeVars, scopeVars, graphVars, rootVars>>

\* find_cargo_toml: the test of the path itself, before the walk
FindCargoStart ==
    /\ dpc = "cargo_start"
    /\ IF EndsWith(dpath, "Cargo.toml")
       THEN /\ manifest' = Some(dpath)
            /\ dpc' = "load_cargo"
            /\ UNCHANGED curr
       ELSE /\ curr' = Some(dpath)
            /\ dpc' = "cargo_walk"
            /\ UNCHANGED manifest
    /\ UNCHANGED <<manifests, dpath, loads_ok, probed, dresult>>
    /\ UNCHANGED <<treeVars, scopeVars, graphVars, rootVars>>

\* find_cargo_toml: one iteration of `while let Some(path) = curr`; past the
\* filesystem root the function returns its error, which discover propagates
FindCargoStep ==
    /\ dpc = "cargo_walk"
    /\ LET path == Unwrap(curr)
           candidate == Join(path, "Cargo.toml")
       IN  /\ probed' = Append(probed, candidate)
           /\ IF Exists(candidate)
              THEN /\ manifest' = Some(candidate)
                   /\ dpc' = "load_cargo"
                   /\ UNCHANGED <<curr, dresult>>
              ELSE /\ curr' = Parent(path)
                   /\ UNCHANGED manifest
                   /\ IF Parent(path) = None
                      THEN /\ dresult' = NotFound(dpath, path)
                           /\ dpc' = "done"
                      ELSE /\ dpc' = "cargo_walk"
                           /\ UNCHANGED dresult
    /\ UNCHANGED <<manifests, dpath, loads_ok>>
    /\ UNCHANGED <<treeVars, scopeVars, graphVars, rootVars>>

\* discover, None: CargoWorkspace::from_cargo_metadata(&cargo_toml)? and
\* Sysroot::discover(&cargo_toml)?
LoadCargo ==
    /\ dpc = "load_cargo"
    /\ dresult' = IF Exists(Unwrap(manifest)) /\ loads_ok
                  THEN DiscoveredCargo(Unwrap(manifest))
                  ELSE LoadError(Unwrap(manifest))
    /\ dpc' = "done"
    /\ UNCHANGED <<manifests, dpath, loads_ok, curr, manifest, probed>>
    /\ UNCHANGED <<treeVars, scopeVars, graphVars, rootVars>>

\* the manifest files a filesystem of MaxDirs nested directories may hold
ManifestPaths == {Join(DirAt(d), n) : d \in 0..MaxDirs, n \in ManifestNames}

\* the paths discover may be called with: a directory, or a manifest in one
StartPaths == {DirAt(d) : d \in 0..MaxDirs} \cup ManifestPaths

InitDiscover ==
    /\ manifests \in SUBSET ManifestPaths
    /\ dpath \in StartPaths
    /\ loads_ok \in BOOLEAN
    /\ dpc = "start"
    /\ curr = None
    /\ manifest = None
    /\ probed = <<>>
    /\ dresult = [kind |-> "NotReturned"]
    /\ NoBuild
    /\ NoScope
    /\ NoProjection
    /\ NoRoot

NextDiscover ==
    \/ FindJsonStart
    \/ FindJsonStep
    \/ OpenJson
    \/ FindCargoStart
    \/ FindCargoStep
    \/ LoadCargo

SpecDiscover == InitDiscover /\ [][NextDiscover]_vars

-----------------------------------------------------------------------------
(* Claims about discovery *)

\* the path and its ancestors up to the filesystem root, nearest first
RECURSIVE UpwardFrom(_)
UpwardFrom(path) ==
    IF path = <<>> THEN <<path>>
    ELSE <<path>> \o UpwardFrom(SubSeq(path, 1, Len(path) - 1))

\* discover was called with a directory
StartIsDir == ~EndsWith(dpath, "Cargo.toml") /\ ~EndsWith(dpath, "rust-project.json")

\* a manifest of this name exists in the starting directory or an ancestor
FoundUpward(name) ==
    \E k \in DOMAIN UpwardFrom(dpath) : Exists(Join(UpwardFrom(dpath)[k], name))

\* C12 (as stated): called with a directory that has, in itself or in its
\* ancestors, both a Cargo.toml and a rust-project.json that can be read,
\* discover returns the Cargo variant.
C12_CargoTomlFirst ==
    (/\ dpc = "done"
     /\ StartIsDir
     /\ loads_ok
     /\ FoundUpward("Cargo.toml")
     /\ FoundUpward("rust-project.json")) => dresult.kind = "Cargo"

\* C13: called with a directory that has neither a Cargo.toml nor a
\* rust-project.json in itself or in its ancestors, discover returns an error
\* whose message names the path it was called with; before that, each of the
\* two walks tested the directory and every ancestor up to the filesystem
\* root, nearest first, and stopped there.
C13_NotFoundNamesStart ==
    (/\ dpc = "done"
     /\ StartIsDir
     /\ ~FoundUpward("Cargo.toml")
     /\ ~FoundUpward("rust-project.json")) =>
        /\ dresult.kind = "Err"
        /\ dresult.msg = "can't find Cargo.toml at"
        /\ dresult.path = dpath
        /\ probed = [k \in DOMAIN UpwardFrom(dpath) |->
                        Join(UpwardFrom(dpath)[k], "rust-project.json")]
                    \o [k \in DOMAIN UpwardFrom(dpath) |->
                          Join(UpwardFrom(dpath)[k], "Cargo.toml")]
        /\ curr = None

\* C13 witness: discover failed for a directory two levels below the root
\* after both walks had reached the root
C13_Witness ==
    /\ dpc = "done"
    /\ dpath = DirAt(2)
    /\ ~FoundUpward("Cargo.toml")
    /\ ~FoundUpward("rust-project.json")
    /\ dresult.kind = "Err"
    /\ probed[Len(probed)] = <<"Cargo.toml">>
    /\ manifests = {}

-----------------------------------------------------------------------------
(* ProjectRoot::include_dir *)

\* a relative directory path has at most this many components
MaxComponents == 2

\* a path component, kept as its first character and the characters after it
Comp(first, rest) == [first |-> first, rest |-> rest]

\* Component::as_str
AsStr(c) == c.first \o c.rest

\* str::starts_with(ch)
StartsWith(c, ch) == c.first = ch

CommonIgnoredDirs ==
    {"node_modules", "target", ".git", "obj", "build", "ci", "jemalloc",
     "llvm-emscripten", "llvm", "llvm-project", "docs", "lld", "lldb", "clang"}

ExternalIgnoredDirs == {"examples", "tests", "benches"}

\* faulty variant of IsIgnored: the two branches of `if self.is_member` are
\* exchanged
IsIgnoredSwapped(member, path) ==
    IF member
    THEN \E i \in DOMAIN path :
            \/ AsStr(path[i]) \in CommonIgnoredDirs
            \/ AsStr(path[i]) \in ExternalIgnoredDirs
    ELSE \E i \in DOMAIN path : AsStr(path[i]) \in CommonIgnoredDirs

\* `let is_ignored = if self.is_member { .. } else { .. };`
IsIgnored(member, path) ==
    IF member
    THEN \E i \in DOMAIN path : AsStr(path[i]) \in CommonIgnoredDirs
    ELSE \E i \in DOMAIN path :
            \/ AsStr(path[i]) \in CommonIgnoredDirs
            \/ AsStr(path[i]) \in ExternalIgnoredDirs

\* `let hidden = dir_path.components().any(|c| c.as_str().starts_with('.'));`
Hidden(path) == \E i \in DOMAIN path : StartsWith(path[i], ".")

\* ProjectRoot::include_dir
IncludeDir(member, path) == ~IsIgnored(member, path) /\ ~Hidden(path)

\* the directory names of the model: the names include_dir knows, names that
\* start with a dot, and names it has no rule for
DirNames ==
    {Comp("n", "ode_modules"), Comp("t", "arget"), Comp(".", "git"), Comp("o", "bj"),
     Comp("b", "uild"), Comp("c", "i"), Comp("j", "emalloc"),
     Comp("l", "lvm-emscripten"), Comp("l", "lvm"), Comp("l", "lvm-project"),
     Comp("d", "ocs"), Comp("l", "ld"), Comp("l", "ldb"), Comp("c", "lang"),
     Comp("e", "xamples"), Comp("t", "ests"), Comp("b", "enches"),
     Comp("s", "rc"), Comp(".", "cargo"), Comp(".", "."), Comp("t", "est"),
     Comp("t", "arget.d")}

\* a call of include_dir on a root
IncludeDirCall ==
    /\ rpc = "call"
    /\ included' = IncludeDir(is_member, dir_path)
    /\ rpc' = "done"
    /\ UNCHANGED <<is_member, dir_path>>
    /\ UNCHANGED <<treeVars, scopeVars, graphVars, discVars>>

InitRoots ==
    /\ is_member \in BOOLEAN
    /\ dir_path \in SeqsUpTo(DirNames, MaxComponents)
    /\ rpc = "call"
    /\ included = FALSE
    /\ NoBuild
    /\ NoScope
    /\ NoProjection
    /\ NoDiscovery

NextRoots == IncludeDirCall

SpecRoots == InitRoots /\ [][NextRoots]_vars

-----------------------------------------------------------------------------
(* Claims about include_dir *)

\* the names of the components of a path
NamesIn(path) == {AsStr(path[i]) : i \in DOMAIN path}

\* C16: include_dir rejects a directory exactly when a component is one of
\* the fourteen ignored names, or a component starts with a dot, or the root
\* is not a member and a component is examples, tests or benches; a directory
\* accepted for a non-member root is accepted for a member root; and a member
\* root accepts examples, tests and benches.
C16_IncludeDir ==
    rpc = "done" =>
        /\ ~included <=>
              \/ NamesIn(dir_path) \cap
                    {"node_modules", "target", ".git", "obj", "build", "ci",
                     "jemalloc", "llvm-emscripten", "llvm", "llvm-project", "docs",
                     "lld", "lldb", "clang"} # {}
              \/ \E i \in DOMAIN dir_path : dir_path[i].first = "."
              \/ ~is_member /\ NamesIn(dir_path) \cap {"examples", "tests", "benches"} # {}
        /\ (~is_member /\ included) => IncludeDir(TRUE, dir_path)
        /\ (is_member /\ dir_path # <<>>
              /\ NamesIn(dir_path) \subseteq {"examples", "tests", "benches"}) => included

\* C16 witness: a member root accepted a path through tests and examples that
\* a root outside the workspace rejects
C16_Witness ==
    /\ rpc = "done"
    /\ is_member
    /\ NamesIn(dir_path) = {"tests", "examples"}
    /\ included
    /\ ~IncludeDir(FALSE, dir_path)

-----------------------------------------------------------------------------
(* module_scope *)

\* Ok(Arc::new(res)): the scope of the module, named here by the module's source
ScopeOk(source) == [kind |-> "Ok", tree |-> None, source |-> source]

\* module_scope is invoked; its first statement is `db.module_tree(..)?`. The
\* engine evaluates module_tree if it holds no result for it, and hands back
\* the memoised result otherwise
ModuleScopeStart ==
    /\ spc = "idle"
    /\ pc \in {"start", "done"}
    /\ spc' = "waiting"
    /\ asked' = canceled
    /\ UNCHANGED scope
    /\ UNCHANGED <<treeVars, graphVars, discVars, rootVars>>

\* module_scope: `?` propagates Err(Canceled) of module_tree; otherwise the
\* source of the module is resolved and its scope returned
ModuleScopeReturn ==
    /\ spc = "waiting"
    /\ pc = "done"
    /\ IF result.kind = "Ok"
       THEN \E module_id \in ModuleIds(RT) :
               scope' = ScopeOk(Module(RT, module_id).source)
       ELSE scope' = Cancelled
    /\ spc' = "done"
    /\ UNCHANGED asked
    /\ UNCHANGED <<treeVars, graphVars, discVars, rootVars>>

\* the engine sets the cancellation flag while it holds the result of
\* module_tree
RequestCancelMemoised ==
    /\ ~canceled
    /\ pc = "done"
    /\ canceled' = TRUE
    /\ UNCHANGED <<memo, files, submods, order, observed, pc, idx, tree, visited, roots,
                   stack, result, run, prev>>
    /\ UNCHANGED exceptTree

\* the three queries, evaluated while the engine may request cancellation
NextQueries ==
    \/ NextCancel
    \/ RequestCancelMemoised
    \/ ModuleScopeStart
    \/ ModuleScopeReturn

SpecQueries == Init /\ [][NextQueries]_vars

-----------------------------------------------------------------------------
(* Claims about the queries *)

\* C15 (as stated): each of the queries module_tree, submodules and
\* module_scope, when it is executed, observes the cancellation flag first, so
\* that a query invoked after cancellation was requested returns Cancelled.
C15_QueriesCheckFirst ==
    [][/\ (canceled /\ pc = "start" /\ pc' # "start") => result' = Cancelled
       /\ (canceled /\ pc = "query" /\ Top.file \notin memo /\ pc' # "query")
             => result' = Cancelled
       /\ (asked /\ spc = "waiting" /\ spc' = "done") => scope' = Cancelled]_vars

=============================================================================
